---------------------------- MODULE Spec2Model ----------------------------
(***************************************************************************)
(* Model of the campus-marketplace front end:                              *)
(*   - the Marketplace view (filter state, address query string, catalog   *)
(*     fetches), and                                                       *)
(*   - the WishlistProvider (membership set, cached records, remote        *)
(*     add / remove / get calls).                                          *)
(* One event-loop turn of the browser (an event handler or a promise       *)
(* continuation, the re-render it causes and the effects of that render)   *)
(* is one action.                                                          *)
(***************************************************************************)
EXTENDS Integers, Sequences, FiniteSets, TLC

(***************************************************************************)
(* Bounds of the model.                                                    *)
(***************************************************************************)
MaxFetches == 3      \* catalog requests issued in one run of the view
MaxInFlight == 2     \* wishlist calls in flight at once

(***************************************************************************)
(* Input alphabets.                                                        *)
(***************************************************************************)
Null == "<null>"                        \* URLSearchParams.get of a missing key

SearchInputs == {"", "lamp"}
CategoryInputs == {"", "Electronics", "Books & Study Material"}
ConditionInputs == {"all", "New", "Used"}

\* page tokens an address may carry when the view is mounted
PageTokens == {Null, "abc", "0", "-2", "3", "2x"}
\* addresses the view is mounted with
MountCategories == {Null, "Electronics", "Bogus"}
MountConditions == {Null, "Mint"}
MountSearches == {Null}

\* pages of results the Catalog Listing Service may answer with
Responses ==
  { [products |-> 0,  pages |-> 1, total |-> 0],
    [products |-> 12, pages |-> 3, total |-> 25],
    [products |-> 5,  pages |-> 1, total |-> 5] }

VARIABLES
  \* ---- Marketplace view ----
  search, category, condition, page,   \* FilterState (useState)
  url,                                 \* query string of the address: key -> value
  products, totalPages, total,         \* committed catalog page
  loading,
  reqs,                                \* catalog requests in flight
  nextId,                              \* number of the next request to issue
  latest,                              \* history: the most recently issued request and its outcome
  hist                                 \* history: the last handler that ran and the page it ran on

VARIABLES
  \* ---- WishlistProvider ----
  token,                               \* the credential useAuth() supplies
  wishlist,                            \* cached records, as the sequence of their ids
  wishlistIds,                         \* membership set
  store,                               \* the remote Wishlist Store: credential of each account -> set of ids
  net,                                 \* wishlist calls in flight, in the order issued
  burst,                               \* history, per item: the toggles requested since no toggle of it was pending (open: not yet resolved; size: requested; calls: remote calls sent; target: the membership last asked for)
  confirmed,                           \* history, per item: what its last successful toggle established
  ev                                   \* history: what the last step did to a toggle (threw: the awaited call failed; ok: the value the toggle resolved to)

marketVars == <<search, category, condition, page, url, products, totalPages,
                total, loading, reqs, nextId, latest, hist>>

wishVars == <<token, wishlist, wishlistIds, store, net, burst, confirmed, ev>>

vars == <<marketVars, wishVars>>

-----------------------------------------------------------------------------
(***************************************************************************)
(* Number <-> string conversions of the page token.                        *)
(***************************************************************************)
Digit(d) == CASE d = 0 -> "0" [] d = 1 -> "1" [] d = 2 -> "2" [] d = 3 -> "3"
              [] d = 4 -> "4" [] d = 5 -> "5" [] d = 6 -> "6" [] d = 7 -> "7"
              [] d = 8 -> "8" [] d = 9 -> "9"

RECURSIVE NatToString(_)
NatToString(n) == IF n < 10 THEN Digit(n)
                  ELSE NatToString(n \div 10) \o Digit(n % 10)

\* Number.prototype.toString of an integer
NumToString(n) == IF n < 0 THEN "-" \o NatToString(-n) ELSE NatToString(n)

PageRange == -3 .. 12

\* parseInt: the integer a token starts with, if any
HasIntPrefix(tok) ==
  \/ \E n \in PageRange : NumToString(n) = tok
  \/ tok = "2x"

IntPrefix(tok) ==
  IF tok = "2x" THEN 2
  ELSE CHOOSE n \in PageRange : NumToString(n) = tok

\* parseInt(tok) || 1 : NaN and 0 are falsy
ParsePage(tok) ==
  IF ~HasIntPrefix(tok) THEN 1
  ELSE IF IntPrefix(tok) = 0 THEN 1
  ELSE IntPrefix(tok)

\* searchParams.get(key)
Get(u, k) == IF k \in DOMAIN u THEN u[k] ELSE Null

\* searchParams.get(key) || ''
GetOrEmpty(u, k) == IF Get(u, k) = Null THEN "" ELSE Get(u, k)

\* params.set(key, value) on a URLSearchParams
Set(u, k, v) == [x \in (DOMAIN u) \cup {k} |-> IF x = k THEN v ELSE u[x]]

EmptyParams == [x \in {} |-> ""]

FilterState(s, c, d, p) == [search |-> s, category |-> c, condition |-> d, page |-> p]

cur == FilterState(search, category, condition, page)

\* the initialisers with the condition read from the category key
DecodeConditionFromCategory(u) ==
  FilterState(GetOrEmpty(u, "search"), GetOrEmpty(u, "category"),
              GetOrEmpty(u, "category"), ParsePage(Get(u, "page")))

\* the initial useState values, read from the address
Decode(u) ==
  FilterState(GetOrEmpty(u, "search"), GetOrEmpty(u, "category"),
              GetOrEmpty(u, "condition"), ParsePage(Get(u, "page")))

\* the URL sync effect writing the page key from page 1 on
EncodeWritesPageOne(st) ==
  LET p1 == IF st.category # "" THEN Set(EmptyParams, "category", st.category)
            ELSE EmptyParams
      p2 == IF st.search # "" THEN Set(p1, "search", st.search) ELSE p1
      p3 == IF st.condition # "" THEN Set(p2, "condition", st.condition) ELSE p2
  IN  IF st.page >= 1 THEN Set(p3, "page", NumToString(st.page)) ELSE p3

\* the URL sync effect
Encode(st) ==
  LET p1 == IF st.category # "" THEN Set(EmptyParams, "category", st.category)
            ELSE EmptyParams
      p2 == IF st.search # "" THEN Set(p1, "search", st.search) ELSE p1
      p3 == IF st.condition # "" THEN Set(p2, "condition", st.condition) ELSE p2
  IN  IF st.page > 1 THEN Set(p3, "page", NumToString(st.page)) ELSE p3

\* fetchProducts reading the page of the render before the handler ran
FetchParamsStalePage(st) ==
  LET p0 == Set(Set(EmptyParams, "page", NumToString(page)), "limit", "12")
      p1 == IF st.category # "" THEN Set(p0, "category", st.category) ELSE p0
      p2 == IF st.search # "" THEN Set(p1, "search", st.search) ELSE p1
  IN  IF st.condition # "" THEN Set(p2, "condition", st.condition) ELSE p2

\* fetchProducts sending the category key even when no category is chosen
FetchParamsAlwaysCategory(st) ==
  LET p0 == Set(Set(EmptyParams, "page", NumToString(st.page)), "limit", "12")
      p1 == Set(p0, "category", st.category)
      p2 == IF st.search # "" THEN Set(p1, "search", st.search) ELSE p1
  IN  IF st.condition # "" THEN Set(p2, "condition", st.condition) ELSE p2

\* the query of the catalog request built by fetchProducts
FetchParams(st) ==
  LET p0 == Set(Set(EmptyParams, "page", NumToString(st.page)), "limit", "12")
      p1 == IF st.category # "" THEN Set(p0, "category", st.category) ELSE p0
      p2 == IF st.search # "" THEN Set(p1, "search", st.search) ELSE p1
  IN  IF st.condition # "" THEN Set(p2, "condition", st.condition) ELSE p2


-----------------------------------------------------------------------------
(***************************************************************************)
(* Marketplace: the state each handler asks for.  React applies all the    *)
(* setState calls of one event handler in a single render.                 *)
(***************************************************************************)
Max(a, b) == IF a >= b THEN a ELSE b
Min(a, b) == IF a <= b THEN a ELSE b

handleSearch(st, value) == [st EXCEPT !.search = value, !.page = 1]

\* handleCategoryChange without its setPage(1)
handleCategoryChangeKeepsPage(st, value) == [st EXCEPT !.category = value]

handleCategoryChange(st, value) == [st EXCEPT !.category = value, !.page = 1]

handleConditionChange(st, value) ==
  [st EXCEPT !.condition = IF value = "all" THEN "" ELSE value, !.page = 1]

clearFilters(st) == [st EXCEPT !.search = "", !.category = "", !.condition = "", !.page = 1]

prevPage(st) == [st EXCEPT !.page = Max(1, st.page - 1)]

nextPage(st) == [st EXCEPT !.page = Min(totalPages, st.page + 1)]

hasActiveFilters == search # "" \/ category # "" \/ condition # ""

\* the pagination row is rendered
paginationShown == ~loading /\ products > 0 /\ totalPages > 1

NoData == [products |-> 0, pages |-> 1, total |-> 0]

\* fetchProducts up to its await: setLoading(true) and the request
IssueFetch(st) ==
  /\ nextId <= MaxFetches
  /\ reqs' = reqs \cup {[id |-> nextId, params |-> FetchParams(st)]}
  /\ latest' = [id |-> nextId, status |-> "pending", data |-> NoData]
  /\ nextId' = nextId + 1
  /\ loading' = TRUE

\* A handler has asked for state st: the render that follows and its two
\* effects (fetchProducts, URL sync).  Setting the state it already has
\* renders nothing.
Commit(op, st) ==
  /\ st # cur
  /\ search' = st.search
  /\ category' = st.category
  /\ condition' = st.condition
  /\ page' = st.page
  /\ url' = Encode(st)
  /\ IssueFetch(st)
  /\ hist' = [op |-> op, fromPage |-> page]
  /\ UNCHANGED <<products, totalPages, total>>
  /\ UNCHANGED wishVars

Search == \E v \in SearchInputs : Commit("search", handleSearch(cur, v))

CategoryChange == \E v \in CategoryInputs : Commit("category", handleCategoryChange(cur, v))

ConditionChange == \E v \in ConditionInputs : Commit("condition", handleConditionChange(cur, v))

ClearFilters == hasActiveFilters /\ Commit("clear", clearFilters(cur))

PrevClick == paginationShown /\ page # 1 /\ Commit("prev", prevPage(cur))

NextClick == paginationShown /\ page # totalPages /\ Commit("next", nextPage(cur))

\* a continuation of fetchProducts that also empties the wishlist cache
FetchResolveResetsWishlist ==
  \E r \in reqs, d \in Responses :
    /\ reqs' = reqs \ {r}
    /\ products' = d.products
    /\ totalPages' = d.pages
    /\ total' = d.total
    /\ loading' = FALSE
    /\ latest' = IF r.id = latest.id THEN [latest EXCEPT !.status = "ok", !.data = d]
                  ELSE latest
    /\ hist' = [op |-> "resolve", fromPage |-> page]
    /\ UNCHANGED <<search, category, condition, page, url, nextId>>
    /\ wishlist' = <<>>
    /\ wishlistIds' = {}
    /\ UNCHANGED <<token, store, net, burst, confirmed, ev>>

\* the continuation of fetchProducts after a successful response
FetchResolve ==
  \E r \in reqs, d \in Responses :
    /\ reqs' = reqs \ {r}
    /\ products' = d.products
    /\ totalPages' = d.pages
    /\ total' = d.total
    /\ loading' = FALSE
    /\ latest' = IF r.id = latest.id THEN [latest EXCEPT !.status = "ok", !.data = d]
                  ELSE latest
    /\ hist' = [op |-> "resolve", fromPage |-> page]
    /\ UNCHANGED <<search, category, condition, page, url, nextId>>
    /\ UNCHANGED wishVars

\* a catch that empties the list before the finally
FetchRejectClearsPage ==
  \E r \in reqs :
    /\ reqs' = reqs \ {r}
    /\ products' = 0
    /\ totalPages' = 1
    /\ total' = 0
    /\ loading' = FALSE
    /\ latest' = IF r.id = latest.id THEN [latest EXCEPT !.status = "failed"] ELSE latest
    /\ hist' = [op |-> "reject", fromPage |-> page]
    /\ UNCHANGED <<search, category, condition, page, url, nextId>>
    /\ UNCHANGED wishVars

\* the catch / finally of fetchProducts
FetchReject ==
  \E r \in reqs :
    /\ reqs' = reqs \ {r}
    /\ loading' = FALSE
    /\ latest' = IF r.id = latest.id THEN [latest EXCEPT !.status = "failed"] ELSE latest
    /\ hist' = [op |-> "reject", fromPage |-> page]
    /\ UNCHANGED <<search, category, condition, page, url, nextId,
                   products, totalPages, total>>
    /\ UNCHANGED wishVars

\* addresses the view can be mounted with
MountUrls ==
  { [k \in {x \in {"search", "category", "condition", "page"} : f[x] # Null} |-> f[k]] :
      f \in [search : MountSearches, category : MountCategories,
             condition : MountConditions, page : PageTokens] }

\* the view after its first render and the effects of that render
MarketMount(u) ==
    /\ search = Decode(u).search
    /\ category = Decode(u).category
    /\ condition = Decode(u).condition
    /\ page = Decode(u).page
    /\ url = Encode(Decode(u))
    /\ products = 0
    /\ totalPages = 1
    /\ total = 0
    /\ loading = TRUE
    /\ reqs = {[id |-> 1, params |-> FetchParams(Decode(u))]}
    /\ nextId = 2
    /\ latest = [id |-> 1, status |-> "pending", data |-> NoData]
    /\ hist = [op |-> "mount", fromPage |-> Decode(u).page]

MarketNext ==
  \/ Search
  \/ CategoryChange
  \/ ConditionChange
  \/ ClearFilters
  \/ PrevClick
  \/ NextClick
  \/ FetchResolve
  \/ FetchReject


-----------------------------------------------------------------------------
(***************************************************************************)
(* WishlistProvider.                                                       *)
(***************************************************************************)
NoToken == "<none>"
Creds == {"A", "B"}      \* credentials of the accounts there can be
Items == {1, 2}          \* ids of the catalog items that can be saved

\* the signed-in user of useAuth(): present exactly when a credential is
user == token # NoToken

RECURSIVE SortedSeq(_)
SortedSeq(S) ==
  IF S = {} THEN <<>>
  ELSE LET m == CHOOSE m \in S : \A y \in S : m <= y
       IN  <<m>> \o SortedSeq(S \ {m})

RemoveAt(q, i) == SubSeq(q, 1, i - 1) \o SubSeq(q, i + 1, Len(q))

\* new Set(response.data.map(p => p.id))
IdsOf(list) == {list[i] : i \in DOMAIN list}

\* prev.filter(p => p.id !== productId)
FilterOut(list, x) == SelectSeq(list, LAMBDA p : p # x)

isInWishlist(x) == x \in wishlistIds

\* a card deriving its flag from the cached records
cardInWishlistFromRecords(x) == x \in IdsOf(wishlist)

\* ProductCard: const inWishlist = isInWishlist(product.id), on every render
cardInWishlist(x) == isInWishlist(x)

\* ProductDetail: const inWishlist = isInWishlist(product.id), on every render
detailInWishlist(x) == isInWishlist(x)

Call(kind, item, cred) ==
  [kind |-> kind, item |-> item, cred |-> cred, phase |-> "sent", data |-> <<>>]

IsMutation(c) == c.kind \in {"add", "remove"}

\* the positions in net of the add / remove calls for item x
Pending(x) == {i \in DOMAIN net : IsMutation(net[i]) /\ net[i].item = x}

NoEvent == [op |-> "other", item |-> 0, threw |-> FALSE, ok |-> TRUE]

NoBurst == [open |-> 0, size |-> 0, calls |-> 0, target |-> FALSE]

\* history of a toggle of an item being requested; member is isInWishlist of
\* the item at that moment, issued the number of remote calls it sent
BurstRequest(b, member, issued) ==
  IF b.open = 0
  THEN [open |-> 1, size |-> 1, calls |-> issued, target |-> ~member]
  ELSE [b EXCEPT !.open = @ + 1, !.size = Min(@ + 1, 3),
                 !.calls = Min(@ + issued, 3), !.target = ~@]

\* a call of the burst failing, or the credential changing: the burst is no
\* longer counted as two toggles that went through (size 3 stands for that)
Spoil(b) == IF b.open = 0 THEN b ELSE [b EXCEPT !.size = 3, !.calls = 3, !.target = FALSE]

BurstSettle(b, ok) ==
  LET c == [b EXCEPT !.open = Max(0, @ - 1)]
  IN  IF ok THEN c ELSE [Spoil(b) EXCEPT !.open = c.open]

\* the history of a burst is kept for the one state in which it has ended
Tidy(bs) == [x \in Items |-> IF bs[x].open = 0 THEN NoBurst ELSE bs[x]]

\* fetchWishlist as called from a closure that holds credential cred, on the
\* calls q in flight: without a credential it clears the cache, with one it sends a get
FetchWishlistCalls(q, cred) ==
  IF cred = NoToken THEN q ELSE Append(q, Call("get", 0, cred))

\* a provider whose effect calls fetchWishlist on mount only
SetTokenNoRefresh(c) ==
  /\ token' = c
  /\ burst' = [x \in Items |-> Spoil(Tidy(burst)[x])]
  /\ confirmed' = [x \in Items |-> "none"]
  /\ ev' = NoEvent
  /\ UNCHANGED marketVars
  /\ UNCHANGED <<store, net, wishlist, wishlistIds>>

\* The Credential Provider replaces the credential; the render that follows
\* gives fetchWishlist a new identity, so the effect calls it.
SetToken(c) ==
  /\ token' = c
  /\ net' = FetchWishlistCalls(net, c)
  /\ IF c = NoToken
     THEN wishlist' = <<>> /\ wishlistIds' = {}
     ELSE UNCHANGED <<wishlist, wishlistIds>>
  /\ burst' = [x \in Items |-> Spoil(Tidy(burst)[x])]
  /\ confirmed' = [x \in Items |-> "none"]
  /\ ev' = NoEvent
  /\ UNCHANGED marketVars
  /\ UNCHANGED store

Login == \E c \in DOMAIN store : c # token /\ Len(net) < MaxInFlight /\ SetToken(c)

Logout == token # NoToken /\ SetToken(NoToken)

\* toggleWishlist with addToWishlist / removeFromWishlist not testing the token
toggleWishlistNoTokenTest(x) ==
  /\ UNCHANGED marketVars
  /\ Len(net) < MaxInFlight
  /\ net' = Append(net, Call(IF isInWishlist(x) THEN "remove" ELSE "add", x, token))
  /\ burst' = [Tidy(burst) EXCEPT ![x] = BurstRequest(@, isInWishlist(x), 1)]
  /\ confirmed' = [confirmed EXCEPT ![x] = "none"]
  /\ ev' = [op |-> "toggle", item |-> x, threw |-> FALSE, ok |-> TRUE]
  /\ UNCHANGED <<token, wishlist, wishlistIds, store>>

\* toggleWishlist choosing its direction from the cached records
toggleWishlistFromRecords(x) ==
  /\ UNCHANGED marketVars
  /\ IF token = NoToken
     THEN /\ ev' = [op |-> "refused", item |-> x, threw |-> FALSE, ok |-> FALSE]
          /\ burst' = Tidy(burst)
          /\ UNCHANGED <<token, wishlist, wishlistIds, store, net, confirmed>>
     ELSE /\ Len(net) < MaxInFlight
          /\ net' = Append(net, Call(IF x \in IdsOf(wishlist) THEN "remove" ELSE "add",
                                     x, token))
          /\ burst' = [Tidy(burst) EXCEPT ![x] = BurstRequest(@, isInWishlist(x), 1)]
          /\ confirmed' = [confirmed EXCEPT ![x] = "none"]
          /\ ev' = [op |-> "toggle", item |-> x, threw |-> FALSE, ok |-> TRUE]
          /\ UNCHANGED <<token, wishlist, wishlistIds, store>>

\* toggleWishlist(x), up to the await of addToWishlist / removeFromWishlist
toggleWishlist(x) ==
  /\ UNCHANGED marketVars
  /\ IF token = NoToken
     THEN /\ ev' = [op |-> "refused", item |-> x, threw |-> FALSE, ok |-> FALSE]
          /\ burst' = Tidy(burst)
          /\ UNCHANGED <<token, wishlist, wishlistIds, store, net, confirmed>>
     ELSE /\ Len(net) < MaxInFlight
          /\ net' = Append(net, Call(IF isInWishlist(x) THEN "remove" ELSE "add", x, token))
          /\ burst' = [Tidy(burst) EXCEPT ![x] = BurstRequest(@, isInWishlist(x), 1)]
          /\ confirmed' = [confirmed EXCEPT ![x] = "none"]
          /\ ev' = [op |-> "toggle", item |-> x, threw |-> FALSE, ok |-> TRUE]
          /\ UNCHANGED <<token, wishlist, wishlistIds, store>>

Toggle == \E x \in Items : toggleWishlist(x)

\* a heart button that awaits toggleWishlist without looking at the user
handleWishlistClickNoUserTest(x) == toggleWishlist(x)

\* the heart button of a ProductCard: without a signed-in user it shows the
\* login toast and returns, otherwise it awaits toggleWishlist
handleWishlistClick(x) ==
  IF ~user
  THEN /\ ev' = [op |-> "loginToast", item |-> x, threw |-> FALSE, ok |-> FALSE]
       /\ burst' = Tidy(burst)
       /\ UNCHANGED <<token, wishlist, wishlistIds, store, net, confirmed>>
       /\ UNCHANGED marketVars
  ELSE toggleWishlist(x)

CardClick == \E x \in Items : handleWishlistClick(x)

\* The Wishlist Store handles a call: it applies an add or a remove to the
\* caller's set, and answers a get with the records of that set.
ServerProcess(i) ==
  LET c == net[i] IN
  /\ c.phase = "sent"
  /\ c.cred \in DOMAIN store
  /\ store' = CASE c.kind = "add" -> [store EXCEPT ![c.cred] = @ \cup {c.item}]
                [] c.kind = "remove" -> [store EXCEPT ![c.cred] = @ \ {c.item}]
                [] c.kind = "get" -> store
  /\ net' = [net EXCEPT ![i] = [c EXCEPT !.phase = "done",
                                          !.data = IF c.kind = "get"
                                                   THEN SortedSeq(store[c.cred])
                                                   ELSE <<>>]]
  /\ ev' = NoEvent
  /\ UNCHANGED marketVars
  /\ burst' = Tidy(burst)
  /\ UNCHANGED <<token, wishlist, wishlistIds, confirmed>>

Serve == \E i \in DOMAIN net : ServerProcess(i)

\* fetchWishlist after its await: the response is stored
GetResolve(i) ==
  LET c == net[i] IN
  /\ c.kind = "get" /\ c.phase = "done"
  /\ wishlist' = c.data
  /\ wishlistIds' = IdsOf(c.data)
  /\ net' = RemoveAt(net, i)
  /\ ev' = NoEvent
  /\ UNCHANGED marketVars
  /\ burst' = Tidy(burst)
  /\ UNCHANGED <<token, store, confirmed>>

\* fetchWishlist's catch
GetReject(i) ==
  LET c == net[i] IN
  /\ c.kind = "get"
  /\ net' = RemoveAt(net, i)
  /\ ev' = NoEvent
  /\ UNCHANGED marketVars
  /\ burst' = Tidy(burst)
  /\ UNCHANGED <<token, wishlist, wishlistIds, store, confirmed>>

\* addToWishlist after its await: membership is extended, fetchWishlist is
\* called from the closure of the render that requested the add, true is returned
AddResolve(i) ==
  LET c == net[i] IN
  /\ c.kind = "add" /\ c.phase = "done"
  /\ wishlistIds' = wishlistIds \cup {c.item}
  /\ net' = FetchWishlistCalls(RemoveAt(net, i), c.cred)
  /\ burst' = [Tidy(burst) EXCEPT ![c.item] = BurstSettle(@, TRUE)]
  /\ confirmed' = [confirmed EXCEPT ![c.item] = "in"]
  /\ ev' = [op |-> "settled", item |-> c.item, threw |-> FALSE, ok |-> TRUE]
  /\ UNCHANGED marketVars
  /\ UNCHANGED <<token, wishlist, store>>

\* addToWishlist with the membership update made before the await and not
\* undone in the catch
AddRejectKeepsMember(i) ==
  LET c == net[i] IN
  /\ c.kind = "add"
  /\ net' = RemoveAt(net, i)
  /\ wishlistIds' = wishlistIds \cup {c.item}
  /\ burst' = [Tidy(burst) EXCEPT ![c.item] = BurstSettle(@, FALSE)]
  /\ ev' = [op |-> "settled", item |-> c.item, threw |-> TRUE, ok |-> FALSE]
  /\ UNCHANGED marketVars
  /\ UNCHANGED <<token, wishlist, store, confirmed>>

\* addToWishlist's catch: false is returned
AddReject(i) ==
  LET c == net[i] IN
  /\ c.kind = "add"
  /\ net' = RemoveAt(net, i)
  /\ burst' = [Tidy(burst) EXCEPT ![c.item] = BurstSettle(@, FALSE)]
  /\ ev' = [op |-> "settled", item |-> c.item, threw |-> TRUE, ok |-> FALSE]
  /\ UNCHANGED marketVars
  /\ UNCHANGED <<token, wishlist, wishlistIds, store, confirmed>>

\* removeFromWishlist after its await
RemoveResolve(i) ==
  LET c == net[i] IN
  /\ c.kind = "remove" /\ c.phase = "done"
  /\ wishlistIds' = wishlistIds \ {c.item}
  /\ wishlist' = FilterOut(wishlist, c.item)
  /\ net' = RemoveAt(net, i)
  /\ burst' = [Tidy(burst) EXCEPT ![c.item] = BurstSettle(@, TRUE)]
  /\ confirmed' = [confirmed EXCEPT ![c.item] = "out"]
  /\ ev' = [op |-> "settled", item |-> c.item, threw |-> FALSE, ok |-> TRUE]
  /\ UNCHANGED marketVars
  /\ UNCHANGED <<token, store>>

\* removeFromWishlist's catch
RemoveReject(i) ==
  LET c == net[i] IN
  /\ c.kind = "remove"
  /\ net' = RemoveAt(net, i)
  /\ burst' = [Tidy(burst) EXCEPT ![c.item] = BurstSettle(@, FALSE)]
  /\ ev' = [op |-> "settled", item |-> c.item, threw |-> TRUE, ok |-> FALSE]
  /\ UNCHANGED marketVars
  /\ UNCHANGED <<token, wishlist, wishlistIds, store, confirmed>>

GetResolved == \E i \in DOMAIN net : GetResolve(i)
GetRejected == \E i \in DOMAIN net : GetReject(i)
AddResolved == \E i \in DOMAIN net : AddResolve(i)
AddRejected == \E i \in DOMAIN net : AddReject(i)
RemoveResolved == \E i \in DOMAIN net : RemoveResolve(i)
RemoveRejected == \E i \in DOMAIN net : RemoveReject(i)

\* the provider after its first render without a credential; the store holds
\* whatever earlier sessions saved
WishMount(st) ==
  /\ token = NoToken
  /\ wishlist = <<>>
  /\ wishlistIds = {}
  /\ store = st
  /\ net = <<>>
  /\ burst = [x \in Items |-> NoBurst]
  /\ confirmed = [x \in Items |-> "none"]
  /\ ev = NoEvent

WishNext ==
  \/ Login
  \/ Logout
  \/ Toggle
  \/ CardClick
  \/ Serve
  \/ GetResolved
  \/ GetRejected
  \/ AddResolved
  \/ AddRejected
  \/ RemoveResolved
  \/ RemoveRejected

-----------------------------------------------------------------------------
(***************************************************************************)
(* Specifications.  The Marketplace view and the WishlistProvider share no *)
(* state; each is explored with the other at rest.                         *)
(***************************************************************************)
InitMarket == \E u \in MountUrls : MarketMount(u) /\ WishMount([c \in {"A"} |-> {}])

SpecMarket == InitMarket /\ [][MarketNext]_vars

\* one account signs in and out
InitWishlist ==
  \E st \in [{"A"} -> SUBSET Items] : WishMount(st) /\ MarketMount(EmptyParams)

SpecWishlist == InitWishlist /\ [][WishNext]_vars

\* two accounts on one browser: the credential can be replaced by another
InitAccounts ==
  \E st \in {[c \in Creds |-> IF c = "A" THEN {1} ELSE {}]} :
    WishMount(st) /\ MarketMount(EmptyParams)

\* the heart of item 1, the item account A has saved
ToggleFirst == toggleWishlist(1)

\* the steps in which a credential change and calls in flight can meet
AccountsNext ==
  \/ Login
  \/ Logout
  \/ ToggleFirst
  \/ Serve
  \/ GetResolved
  \/ GetRejected
  \/ AddResolved
  \/ RemoveResolved

SpecAccounts == InitAccounts /\ [][AccountsNext]_vars

\* the Marketplace view and the WishlistProvider of one page, interleaved
InitPage == \E u \in {EmptyParams} : MarketMount(u) /\ WishMount([c \in {"A"} |-> {}])

\* a catalog fetch issued and settled, a toggle and a refresh requested and
\* settled
PageNext ==
  \/ Search
  \/ FetchResolve
  \/ FetchReject
  \/ Login
  \/ ToggleFirst
  \/ Serve
  \/ GetResolved
  \/ AddResolved

SpecPage == InitPage /\ [][PageNext]_vars

-----------------------------------------------------------------------------
(***************************************************************************)
(* The codec between FilterState and the query string of the address, on   *)
(* its own: the useState initialisers (decode) and the URL sync effect     *)
(* (encode) applied to inputs drawn from bounded sets.                     *)
(***************************************************************************)
MaxPage == 3         \* largest page of a FilterState handed to the encoder

\* FilterStates with page >= 1
CodecStates ==
  [search : SearchInputs, category : CategoryInputs,
   condition : {"", "New", "Used"}, page : 1 .. MaxPage]

\* addresses handed to the decoder; ?page= gives the empty token
CodecUrls ==
  { [k \in {x \in {"search", "category", "condition", "page"} : f[x] # Null} |-> f[k]] :
      f \in [search : {Null, "lamp"}, category : MountCategories,
             condition : MountConditions, page : PageTokens \cup {""}] }

\* the URL sync effect writes the address of the FilterState on screen
CodecEncode ==
  /\ hist.op \in {"state", "mounted"}
  /\ url' = Encode(cur)
  /\ hist' = [op |-> "encoded", from |-> cur]
  /\ UNCHANGED <<search, category, condition, page, products, totalPages, total,
                 loading, reqs, nextId, latest>>
  /\ UNCHANGED wishVars

\* a view is mounted from the address: the useState initialisers read it
CodecDecode ==
  /\ hist.op \in {"address", "encoded"}
  /\ search' = Decode(url).search
  /\ category' = Decode(url).category
  /\ condition' = Decode(url).condition
  /\ page' = Decode(url).page
  /\ hist' = IF hist.op = "address" THEN [op |-> "mounted", from |-> url]
             ELSE [op |-> "reloaded", from |-> hist.from]
  /\ UNCHANGED <<url, products, totalPages, total, loading, reqs, nextId, latest>>
  /\ UNCHANGED wishVars

CodecNext ==
  \/ CodecEncode
  \/ CodecDecode

\* either a FilterState to encode or an address to decode
InitCodec ==
  \E st \in CodecStates, u \in CodecUrls, side \in {"state", "address"} :
    /\ search = (IF side = "state" THEN st.search ELSE "")
    /\ category = (IF side = "state" THEN st.category ELSE "")
    /\ condition = (IF side = "state" THEN st.condition ELSE "")
    /\ page = (IF side = "state" THEN st.page ELSE 1)
    /\ url = (IF side = "state" THEN EmptyParams ELSE u)
    /\ hist = [op |-> side, from |-> IF side = "state" THEN st ELSE u]
    /\ products = 0 /\ totalPages = 1 /\ total = 0 /\ loading = FALSE
    /\ reqs = {} /\ nextId = 1
    /\ latest = [id |-> 0, status |-> "ok", data |-> NoData]
    /\ WishMount([c \in {"A"} |-> {}])

SpecCodec == InitCodec /\ [][CodecNext]_vars

-----------------------------------------------------------------------------
(***************************************************************************)
(* Properties of the catalog fetch (SpecMarket).                           *)
(***************************************************************************)
committedPage == [products |-> products, pages |-> totalPages, total |-> total]

filterChanged == search' # search \/ category' # category \/ condition' # condition

filterOps == {"search", "category", "condition", "clear"}

\* C1: last-issued-wins.  Once every fetch has settled and the most recently
\* issued one succeeded, the committed catalog page (products, total,
\* totalPages) is the response of that most recently issued fetch.
C1_LastIssuedWins ==
  (reqs = {} /\ latest.status = "ok") => committedPage = latest.data

\* C8: every step that changes search text, category or condition ends with
\* page = 1, in the state and in the address, in that same step.
C8_FilterChangeResetsPage ==
  [][filterChanged => page' = 1 /\ Get(url', "page") = Null]_vars

\* a filter was changed while page 3 was shown, and page 1 is shown now
C8_Witness ==
  /\ hist.op \in filterOps
  /\ hist.fromPage = 3
  /\ page = 1
  /\ category = "Books & Study Material"

\* C9: in a step that changes search text, category or condition, every
\* catalog request issued carries page 1, whatever page was shown before.
C9_NoRequestWithOldPage ==
  [][filterChanged => \A r \in reqs' \ reqs : Get(r.params, "page") = "1"]_vars

\* the request issued by a filter change made on page 3 is in flight with page 1
C9_Witness ==
  /\ hist.op \in filterOps
  /\ hist.fromPage = 3
  /\ \E r \in reqs : /\ r.id = latest.id
                      /\ Get(r.params, "page") = "1"
                      /\ Get(r.params, "search") = "lamp"

\* C10: the query string of the address is the encoding of the current
\* FilterState, and decoding it gives back that FilterState.
C10_UrlReflectsState == url = Encode(cur) /\ Decode(url) = cur

\* C14: page is an integer >= 1 in every state of the view, whatever page
\* token it was mounted with and whatever was clicked since.
C14_PageAtLeastOne == page \in Nat /\ page >= 1

\* the categories of CategoryFilter and the conditions of the Select, with
\* the unconstrained value
KnownCategories ==
  {"", "Room Essentials", "Books & Study Material", "Electronics", "Other Useful Stuff"}

KnownConditions == {"", "New", "Like New", "Used"}

\* C15: the category and condition of the FilterState are known ones (or
\* unconstrained), and no catalog request carries an unknown category or
\* condition, whatever the address held at mount.
C15_UnknownFiltersDropped ==
  /\ category \in KnownCategories
  /\ condition \in KnownConditions
  /\ \A r \in reqs :
       /\ GetOrEmpty(r.params, "category") \in KnownCategories
       /\ GetOrEmpty(r.params, "condition") \in KnownConditions

\* C16: the step in which a fetch fails leaves products, total and
\* totalPages as they were and issues no request; a request is issued only
\* in a step that changes the FilterState.
C16_FailedFetchKeepsPage ==
  [][/\ (hist'.op = "reject") =>
          (UNCHANGED <<products, totalPages, total>> /\ reqs' \subseteq reqs
             /\ nextId' = nextId)
     /\ (reqs' \ reqs # {}) => (cur' # cur)]_vars

\* the only fetch in flight has just failed while a page of 12 of 25 items
\* was shown; the page is still shown and nothing is in flight
C16_Witness ==
  /\ hist.op = "reject"
  /\ latest.status = "failed"
  /\ reqs = {}
  /\ committedPage = [products |-> 12, pages |-> 3, total |-> 25]

\* C17: once the most recently issued fetch has failed and nothing is in
\* flight, the state of the view differs from every state a successful
\* fetch leaves (a committed page of the service, loading off).
C17_FailureDistinguishable ==
  (latest.status = "failed" /\ reqs = {}) =>
    ~(~loading /\ committedPage \in Responses)

\* C18: a Previous / Next click leaves page within 1 .. totalPages, and the
\* request it issues asks for that page.
C18_PaginationClamped ==
  [][(hist'.op \in {"prev", "next"}) =>
       \E n \in 1 .. totalPages :
         /\ page' = n
         /\ \A r \in reqs' \ reqs : Get(r.params, "page") = NumToString(n)]_vars

\* request r asks for FilterState st: page and limit 12 always, category,
\* search and condition exactly when not empty, and nothing else
Carries(r, st) ==
  /\ Get(r.params, "page") = NumToString(st.page)
  /\ Get(r.params, "limit") = "12"
  /\ \A k \in {"category", "search", "condition"} :
       Get(r.params, k) = (IF st[k] = "" THEN Null ELSE st[k])
  /\ DOMAIN r.params \subseteq {"page", "limit", "category", "search", "condition"}

\* C29: every step that changes the FilterState issues exactly one catalog
\* request, and that request asks for the new FilterState; the most recently
\* issued request, from the mount on and while it is in flight, asks for the
\* current FilterState.
C29_EveryStateFetched ==
  [][/\ (cur' # cur) =>
          \E r \in reqs' \ reqs :
            /\ reqs' = reqs \cup {r}
            /\ r.id = latest'.id
            /\ Carries(r, cur')
     /\ \A r \in reqs' : (r.id = latest'.id) => Carries(r, cur')
     /\ \A r \in reqs : (r.id = latest.id) => Carries(r, cur)]_vars

\* lamp was searched and condition Used chosen: the request in flight asks
\* for page 1 of that, without a category key
C29_Witness ==
  /\ hist.op = "condition"
  /\ cur = FilterState("lamp", "", "Used", 1)
  /\ \E r \in reqs :
       /\ r.id = latest.id
       /\ r.params = [k \in {"page", "limit", "search", "condition"} |->
                        CASE k = "page" -> "1" [] k = "limit" -> "12"
                          [] k = "search" -> "lamp" [] k = "condition" -> "Used"]

\* C30: loading is false only when no catalog request is in flight.
C30_LoadingTracksRequests == (~loading) => (reqs = {})

-----------------------------------------------------------------------------
(***************************************************************************)
(* Properties of the codec (SpecCodec).                                    *)
(***************************************************************************)
\* C11: round trip.  A view mounted from the address that the URL sync
\* effect wrote for a FilterState with page >= 1 has that FilterState, in
\* all four fields.
C11_RoundTrip ==
  (hist.op = "reloaded" /\ hist.from.page >= 1) => cur = hist.from

\* page 3 of a search within a category and a condition came back unchanged
C11_Witness ==
  /\ hist.op = "reloaded"
  /\ hist.from = FilterState("lamp", "Electronics", "Used", 3)
  /\ cur = FilterState("lamp", "Electronics", "Used", 3)

\* C12: the encoded query string has a search, category or condition key
\* exactly when that field is not empty, holding the field's value, and a
\* page key exactly when page > 1, holding the page; it has no other key.
C12_EncodingRules ==
  (hist.op = "encoded") =>
    /\ \A k \in {"search", "category", "condition"} :
         /\ (k \in DOMAIN url) <=> (hist.from[k] # "")
         /\ (k \in DOMAIN url) => (url[k] = hist.from[k])
    /\ ("page" \in DOMAIN url) <=> (hist.from.page > 1)
    /\ ("page" \in DOMAIN url) => (url["page"] = NumToString(hist.from.page))
    /\ DOMAIN url \subseteq {"search", "category", "condition", "page"}

\* category Electronics on page 1 encodes to category=Electronics alone
C12_Witness ==
  /\ hist.op = "encoded"
  /\ hist.from = FilterState("", "Electronics", "", 1)
  /\ url = [k \in {"category"} |-> "Electronics"]

\* page tokens that are absent, empty or not a number
NoPageNumber == {Null, "", "abc", "2x"}

\* C13: a view mounted from an address whose page token is absent, empty
\* or not a number has page = 1.
C13_MalformedPageIsOne ==
  (hist.op = "mounted" /\ Get(hist.from, "page") \in NoPageNumber) => page = 1

-----------------------------------------------------------------------------
(***************************************************************************)
(* Properties of the wishlist (SpecWishlist).                              *)
(***************************************************************************)
\* C2: when a second toggle of an item is requested before the first has
\* settled, one remote call has been issued for the two, and once both have
\* settled successfully the item's membership is the last requested target.
C2_DoubleToggleCoalesced ==
  \A x \in Items :
    burst[x].size = 2 =>
      /\ burst[x].calls = 1
      /\ (burst[x].open = 0 => (isInWishlist(x) <=> burst[x].target))

\* C3: for every item at most one add / remove call is in flight.
C3_OneInFlightPerItem == \A x \in Items : Cardinality(Pending(x)) <= 1

\* C4: while the one remote call of a toggle is in flight, the item's
\* membership is already the intended one: member during an add, not a
\* member during a remove.
C4_OptimisticMembership ==
  \A x \in Items : \A i \in Pending(x) :
    (Pending(x) = {i} /\ net[i].cred = token) =>
      (isInWishlist(x) <=> net[i].kind = "add")

\* C5: a toggle whose remote call fails resolves to false, and neither its
\* request nor its settlement changes the membership set or the records.
C5_FailedToggleLeavesState ==
  [][/\ (ev'.op = "toggle") => UNCHANGED <<wishlist, wishlistIds>>
     /\ (ev'.op = "settled" /\ ev'.threw) =>
          (~ev'.ok /\ UNCHANGED <<wishlist, wishlistIds>>)]_vars

\* the remote call of a toggle of item 1 has just failed; item 1 is not
\* saved, item 2 is
C5_Witness ==
  /\ ev.op = "settled" /\ ev.threw /\ ~ev.ok
  /\ ev.item = 1
  /\ wishlistIds = {2}
  /\ wishlist = <<2>>

\* C6: a toggle whose remote call succeeds resolves to true, and the
\* membership it established (member after an add, not a member after a
\* remove) stays until the next toggle of the item or credential change.
C6_SuccessfulToggleSticks ==
  /\ (ev.op = "settled" /\ ~ev.threw) => ev.ok
  /\ \A x \in Items :
       /\ (confirmed[x] = "in") => isInWishlist(x)
       /\ (confirmed[x] = "out") => ~isInWishlist(x)

\* C7: the membership set and the ids of the cached records differ at most
\* in items that have a toggle in flight.
C7_MembershipMatchesRecords ==
  \A x \in Items : (x \in wishlistIds <=> x \in IdsOf(wishlist)) \/ Pending(x) # {}

\* C19: whenever no credential is present, the membership set and the
\* cached records are empty, so isInWishlist is false for every item,
\* whatever was in flight when the credential went away.
C19_NoTokenNoCache ==
  (token = NoToken) =>
    (wishlistIds = {} /\ wishlist = <<>> /\ \A x \in Items : ~isInWishlist(x))

\* C20: a toggle requested while no credential is present resolves to
\* false in that step, leaves the membership set and the records as they
\* were, and puts no call to the Wishlist Store in flight.
C20_UnauthenticatedToggle ==
  [][(token = NoToken /\ ev'.op \in {"toggle", "refused"}) =>
       /\ ev'.op = "refused"
       /\ ~ev'.ok
       /\ UNCHANGED <<wishlist, wishlistIds, net, store>>]_vars

\* signed out, item 1 (saved in the account) was toggled and refused
C20_Witness ==
  /\ token = NoToken
  /\ ev.op = "refused" /\ ~ev.ok
  /\ ev.item = 1
  /\ store["A"] = {1}
  /\ net = <<>>

\* C22: the step in which an add or remove call settles, successfully or
\* not, sends a get to the store: the settled call leaves the calls in
\* flight and a get is put behind the others.
C22_RefreshAfterMutation ==
  [][(ev'.op = "settled") =>
       /\ Len(net') = Len(net)
       /\ net'[Len(net')].kind = "get"
       /\ net'[Len(net')].phase = "sent"]_vars

C24_AuthRequiredSurfaced ==
  [][/\ (CardClick /\ ~user) =>
          /\ ev'.op = "loginToast"
          /\ ~ev'.ok
          /\ UNCHANGED <<net, store, wishlist, wishlistIds>>
     /\ \A i \in DOMAIN net' : net'[i].cred # NoToken]_vars

\* nobody is signed in and the heart of item 2, saved in the account, was
\* clicked: the login toast is up and nothing is in flight
C24_Witness ==
  /\ ~user
  /\ ev.op = "loginToast" /\ ev.item = 2
  /\ store["A"] = {2}
  /\ net = <<>>

\* C26: the step in which a toggle of an item is requested with a
\* credential sends exactly one call: a remove when the item is in the
\* membership set at that moment, an add when it is not.
C26_ToggleDirection ==
  [][(ev'.op = "toggle") =>
       net' = Append(net, Call(IF ev'.item \in wishlistIds THEN "remove" ELSE "add",
                               ev'.item, token))]_vars

\* item 1 was added and its record not fetched yet; its toggle sent a remove
C26_Witness ==
  /\ ev.op = "toggle" /\ ev.item = 1
  /\ 1 \in wishlistIds
  /\ wishlist = <<>>
  /\ net[Len(net)].kind = "remove"
  /\ net[Len(net)].item = 1

\* C27: when a refresh succeeds as the last call in flight, under a
\* credential, the membership set is the set of ids the store holds for that
\* credential, and so are the ids of the records.
C27_ConvergesToStore ==
  [][(GetResolved /\ net' = <<>> /\ token # NoToken) =>
       (wishlistIds' = store[token] /\ IdsOf(wishlist') = store[token])]_vars

-----------------------------------------------------------------------------
(***************************************************************************)
(* Properties of the wishlist across credential changes (SpecAccounts).    *)
(***************************************************************************)
\* C21: the step in which the credential changes starts the refresh for the
\* new credential: with no credential the membership set and the records
\* are emptied and no call is sent; with one, a get carrying the new
\* credential is sent, behind the calls already in flight.
C21_CredentialChangeRefreshes ==
  [][(token' # token) =>
       IF token' = NoToken
       THEN wishlistIds' = {} /\ wishlist' = <<>> /\ net' = net
       ELSE net' = Append(net, Call("get", 0, token'))]_vars

\* the credential of A was replaced by that of B while A's get was still in
\* flight; the get for B is in flight behind it
C21_Witness ==
  /\ token = "B"
  /\ Len(net) = 2
  /\ net[1].kind = "get" /\ net[1].cred = "A"
  /\ net[2] = Call("get", 0, "B")

-----------------------------------------------------------------------------
(***************************************************************************)
(* Properties of the view and the provider together (SpecPage).            *)
(***************************************************************************)
\* C25: a step that issues or settles a catalog request leaves the
\* membership set, the records and the wishlist calls in flight unchanged;
\* a step that requests or settles a toggle or a refresh, or changes the
\* credential, leaves the FilterState, the address and the committed
\* catalog page unchanged and issues or settles no catalog request.
C25_CatalogWishlistIndependent ==
  [][/\ (reqs' # reqs) => UNCHANGED <<wishlistIds, wishlist, net, token>>
     /\ (net' # net \/ token' # token \/ wishlistIds' # wishlistIds
           \/ wishlist' # wishlist) =>
          UNCHANGED <<search, category, condition, page, url, products,
                      totalPages, total, reqs, nextId>>]_vars

\* a catalog request has answered and another is in flight, while the
\* refresh that follows the add of item 1 is in flight; item 1 is a member
C25_Witness ==
  /\ hist.op = "resolve"
  /\ products = 12
  /\ wishlistIds = {1}
  /\ \E i \in DOMAIN net : net[i].kind = "get"
  /\ reqs # {}

\* the ids held only by accounts other than the one signed in
OthersOnly ==
  {x \in Items : \E a \in DOMAIN store : a # token /\ x \in store[a]}
    \ (IF token \in DOMAIN store THEN store[token] ELSE {})

\* C28: the settling of a get, add or remove call that carries a credential
\* other than the current one changes neither the membership set nor the
\* records and sends no call; and when a get of the current credential
\* fails, the cache shows no item that only another account holds.
C28_CredentialIsolation ==
  [][\A i \in DOMAIN net :
       /\ (net[i].cred # token /\ (GetResolve(i) \/ AddResolve(i) \/ RemoveResolve(i))) =>
            /\ UNCHANGED <<wishlist, wishlistIds>>
            /\ net' = RemoveAt(net, i)
       /\ (net[i].cred = token /\ GetReject(i)) =>
            (wishlistIds' \cup IdsOf(wishlist')) \cap OthersOnly = {}]_vars

=============================================================================
